---- MODULE Spec2Model ----
(***************************************************************************)
(* RelationalGPT: the in-memory relational algebra of relational/dsl.py    *)
(* (restrict, join, project, extend, summarize, ensure) and the constraint *)
(* evaluators built on it.                                                 *)
(*                                                                         *)
(* A relation is a sequence of records; a record (a Python dict) is a      *)
(* function from a finite set of field names to scalars.  Python's None is *)
(* the scalar None below.                                                  *)
(***************************************************************************)
EXTENDS Integers, Sequences, FiniteSets, TLC

\* Bound on the total number of rows of the two input relations.
MaxRows == 4

\* Bound on the rows of the input relation of a one-relation operator.
MaxRel == 3

\* A caller's assignment to a result record is tried on input relations of
\* fewer than MaxRel rows.
MaxAssigned == MaxRel - 1

\* Bound on the number of constraints registered with the framework.
MaxChecks == 3

\* Python's None, coded as an integer no relation of the model uses as data.
None == -1

\* Field names and scalars of the generated input relations.
Fields == {"k", "x"}
Scalars == {1, 2}

\* Every record over a subset of Fields (a field may be absent).
Records == UNION {[S -> Scalars] : S \in SUBSET Fields}

\* Every relation of at most n records.
Relations(n) == UNION {[1..m -> Records] : m \in 0..n}

\* suite: the family of inputs; rel1, rel2, arg: the inputs of the call;
\* result, origin: what the call returned and where its records come from;
\* op: the call made; pc, out, raised: position, printed lines and pending
\* exception of an evaluator run; status: the exit status of the process
\* (None while it runs); alias: for each record of result, the position in
\* rel1 of the dict object it is, 0 for a dict the call created.
VARIABLES suite, rel1, rel2, arg, result, origin, op, pc, out, raised,
          status, alias

vars == <<suite, rel1, rel2, arg, result, origin, op, pc, out, raised,
          status, alias>>

\* No exception pending.
NoError == ""

----------------------------------------------------------------------------
\* relational/dsl.py

\* row.keys()
keys(row) == DOMAIN row

\* row.get(k): the value at k, None when the field is absent.
get(row, k) == IF k \in DOMAIN row THEN row[k] ELSE None

\* Mutant: equal projected records are kept once (set semantics).
RECURSIVE project_distinct(_, _)
project_distinct(rel, fields) ==
    IF Len(rel) = 0 THEN <<>>
    ELSE LET front == project_distinct(SubSeq(rel, 1, Len(rel) - 1), fields)
             last == [f \in {fields[m] : m \in 1..Len(fields)} |->
                        get(rel[Len(rel)], f)]
         IN  IF \E n \in 1..Len(front) : front[n] = last
             THEN front ELSE Append(front, last)

\* project(rel, *fields); fields is the sequence of requested names.
project(rel, fields) ==
    [n \in 1..Len(rel) |->
        [f \in {fields[m] : m \in 1..Len(fields)} |-> get(rel[n], f)]]

\* Mutant: the fields any record of rel1 shares with any record of rel2.
common_keys_every(r1, r2) ==
    (UNION {keys(r1[n]) : n \in 1..Len(r1)})
        \cap (UNION {keys(r2[n]) : n \in 1..Len(r2)})

\* Mutant: the fields of the first record of rel1.
common_keys_left(r1, r2) == keys(r1[1])

\* common_keys = set(rel1[0].keys()).intersection(rel2[0].keys())
common_keys(r1, r2) == keys(r1[1]) \cap keys(r2[1])

\* Mutant: None never equals anything (SQL null semantics).
all_equal_strict(row1, row2, ck) ==
    \A k \in ck : k \in keys(row1) /\ k \in keys(row2) /\ row1[k] = row2[k]

\* Mutant: any() in place of all().
all_equal_any(row1, row2, ck) ==
    \E k \in ck : get(row1, k) = get(row2, k)

\* all(row1.get(k) == row2.get(k) for k in common_keys)
all_equal(row1, row2, ck) ==
    \A k \in ck : get(row1, k) = get(row2, k)

\* Mutant: row1 wins on a name collision.
combined_left(row1, row2) ==
    [f \in keys(row1) \cup keys(row2) |->
        IF f \in keys(row1) THEN row1[f] ELSE row2[f]]

\* combined = row1.copy(); combined.update(row2)
combined(row1, row2) ==
    [f \in keys(row1) \cup keys(row2) |->
        IF f \in keys(row2) THEN row2[f] ELSE row1[f]]

\* Mutant: the loops nested the other way round (rel2 outer).
RECURSIVE join_loop_swapped(_, _, _, _, _)
join_loop_swapped(r1, r2, ck, i, j) ==
    IF j > Len(r2) THEN <<>>
    ELSE IF i > Len(r1) THEN join_loop_swapped(r1, r2, ck, 1, j + 1)
    ELSE (IF all_equal(r1[i], r2[j], ck)
          THEN <<[i |-> i, j |-> j, row |-> combined(r1[i], r2[j])]>>
          ELSE <<>>)
         \o join_loop_swapped(r1, r2, ck, i + 1, j)

\* Mutant: a matching pair is appended twice.
RECURSIVE join_loop_twice(_, _, _, _, _)
join_loop_twice(r1, r2, ck, i, j) ==
    IF i > Len(r1) THEN <<>>
    ELSE IF j > Len(r2) THEN join_loop_twice(r1, r2, ck, i + 1, 1)
    ELSE (IF all_equal(r1[i], r2[j], ck)
          THEN <<[i |-> i, j |-> j, row |-> combined(r1[i], r2[j])],
                 [i |-> i, j |-> j, row |-> combined(r1[i], r2[j])]>>
          ELSE <<>>)
         \o join_loop_twice(r1, r2, ck, i, j + 1)

\* for row1 in rel1: for row2 in rel2: if all(...): result.append(combined)
\* from iteration (i, j) on.  Each appended record is listed with the
\* iteration that appended it.
RECURSIVE join_loop(_, _, _, _, _)
join_loop(r1, r2, ck, i, j) ==
    IF i > Len(r1) THEN <<>>
    ELSE IF j > Len(r2) THEN join_loop(r1, r2, ck, i + 1, 1)
    ELSE (IF all_equal(r1[i], r2[j], ck)
          THEN <<[i |-> i, j |-> j, row |-> combined(r1[i], r2[j])]>>
          ELSE <<>>)
         \o join_loop(r1, r2, ck, i, j + 1)

\* Mutant: an empty input acts as the identity of join.
join_run_identity(r1, r2) ==
    IF Len(r1) = 0
    THEN [n \in 1..Len(r2) |-> [i |-> 0, j |-> n, row |-> r2[n]]]
    ELSE IF Len(r2) = 0
    THEN [n \in 1..Len(r1) |-> [i |-> n, j |-> 0, row |-> r1[n]]]
    ELSE join_loop(r1, r2, common_keys(r1, r2), 1, 1)

\* Mutant: rows of rel1 without a match are kept (left outer join).
join_run_outer(r1, r2) ==
    IF Len(r1) = 0 \/ Len(r2) = 0 THEN <<>>
    ELSE LET ck == common_keys(r1, r2)
             RECURSIVE outer(_)
             outer(i) ==
                 IF i > Len(r1) THEN <<>>
                 ELSE LET m == join_loop(<<r1[i]>>, r2, ck, 1, 1)
                      IN  (IF Len(m) = 0
                           THEN <<[i |-> i, j |-> 0, row |-> r1[i]]>>
                           ELSE [n \in 1..Len(m) |->
                                    [i |-> i, j |-> m[n].j, row |-> m[n].row]])
                          \o outer(i + 1)
         IN  outer(1)

\* The body of join(rel1, rel2): the records appended to result, in order,
\* each with the loop iteration (i, j) that appended it.
join_run(r1, r2) ==
    IF Len(r1) = 0 \/ Len(r2) = 0 THEN <<>>
    ELSE join_loop(r1, r2, common_keys(r1, r2), 1, 1)

\* join(rel1, rel2): the value returned.
join(r1, r2) ==
    LET run == join_run(r1, r2) IN [n \in 1..Len(run) |-> run[n].row]

\* The iterations (i, j) of join(rel1, rel2) that appended a record.
join_origin(r1, r2) ==
    LET run == join_run(r1, r2) IN [n \in 1..Len(run) |-> <<run[n].i, run[n].j>>]

\* The rows of a relation, as a set.
rows(rel) == {rel[n] : n \in 1..Len(rel)}

\* Mutant: a record equal to one already kept is not kept again.
RECURSIVE restrict_distinct(_, _)
restrict_distinct(rel, predicate) ==
    IF Len(rel) = 0 THEN <<>>
    ELSE LET front == restrict_distinct(SubSeq(rel, 1, Len(rel) - 1), predicate)
             last == rel[Len(rel)]
         IN  IF predicate[last] /\ ~(\E n \in 1..Len(front) : front[n] = last)
             THEN Append(front, last) ELSE front

\* Mutant: every row is kept.
restrict_all(rel, predicate) == rel

\* restrict(rel, predicate); predicate maps each row of rel to a boolean.
restrict(rel, predicate) ==
    LET keep(row) == predicate[row] IN SelectSeq(rel, keep)

\* The list comprehension [row for row in rel if predicate(row)] puts the
\* dict objects of rel themselves in the new list: for each element of the
\* result, the position in rel of the dict it is.
restrict_rows(rel, predicate) ==
    LET keep(i) == predicate[rel[i]]
    IN  SelectSeq([i \in 1..Len(rel) |-> i], keep)

\* Mutant: func is called on the first row for every row.
extend_first(rel, new_field, func) ==
    [n \in 1..Len(rel) |->
        [f \in keys(rel[n]) \cup {new_field} |->
            IF f = new_field THEN func[rel[1]] ELSE rel[n][f]]]

\* Mutant: a field the row already has keeps its value.
extend_keep(rel, new_field, func) ==
    [n \in 1..Len(rel) |->
        [f \in keys(rel[n]) \cup {new_field} |->
            IF f \in keys(rel[n]) THEN rel[n][f] ELSE func[rel[n]]]]

\* extend(rel, new_field, func): dict(row, **{new_field: func(row)}) for
\* each row; func maps a row to the new value.
extend(rel, new_field, func) ==
    [n \in 1..Len(rel) |->
        [f \in keys(rel[n]) \cup {new_field} |->
            IF f = new_field THEN func[rel[n]] ELSE rel[n][f]]]

\* key = tuple(row.get(field) for field in group_fields)
group_key(row, group_fields) ==
    [m \in 1..Len(group_fields) |-> get(row, group_fields[m])]

\* Mutant: only neighbouring rows with equal keys are grouped.
RECURSIVE summarize_groups_runs(_, _, _)
summarize_groups_runs(rel, group_fields, n) ==
    IF n = 0 THEN <<>>
    ELSE LET groups == summarize_groups_runs(rel, group_fields, n - 1)
             key == group_key(rel[n], group_fields)
         IN  IF Len(groups) > 0 /\ groups[Len(groups)].key = key
             THEN [groups EXCEPT ![Len(groups)].members = Append(@, n)]
             ELSE Append(groups, [key |-> key, members |-> <<n>>])

\* Mutant: a new key is put in front of the keys seen before.
RECURSIVE summarize_groups_front(_, _, _)
summarize_groups_front(rel, group_fields, n) ==
    IF n = 0 THEN <<>>
    ELSE LET groups == summarize_groups_front(rel, group_fields, n - 1)
             key == group_key(rel[n], group_fields)
         IN  IF \E g \in 1..Len(groups) : groups[g].key = key
             THEN [g \in 1..Len(groups) |->
                      IF groups[g].key = key
                      THEN [key |-> key, members |-> Append(groups[g].members, n)]
                      ELSE groups[g]]
             ELSE <<[key |-> key, members |-> <<n>>]>> \o groups

\* Mutant: a row that lacks a group field is left out.
RECURSIVE summarize_groups_skip(_, _, _)
summarize_groups_skip(rel, group_fields, n) ==
    IF n = 0 THEN <<>>
    ELSE LET groups == summarize_groups_skip(rel, group_fields, n - 1)
             key == group_key(rel[n], group_fields)
         IN  IF \E m \in 1..Len(group_fields) : group_fields[m] \notin keys(rel[n])
             THEN groups
             ELSE IF \E g \in 1..Len(groups) : groups[g].key = key
             THEN [g \in 1..Len(groups) |->
                      IF groups[g].key = key
                      THEN [key |-> key, members |-> Append(groups[g].members, n)]
                      ELSE groups[g]]
             ELSE Append(groups, [key |-> key, members |-> <<n>>])

\* groups after the first n rows: for row in rel:
\* groups.setdefault(key, []).append(row).  The dict keeps its keys in the
\* order of their insertion; a group is its key and the positions in rel
\* of its member rows.
RECURSIVE summarize_groups(_, _, _)
summarize_groups(rel, group_fields, n) ==
    IF n = 0 THEN <<>>
    ELSE LET groups == summarize_groups(rel, group_fields, n - 1)
             key == group_key(rel[n], group_fields)
         IN  IF \E g \in 1..Len(groups) : groups[g].key = key
             THEN [g \in 1..Len(groups) |->
                      IF groups[g].key = key
                      THEN [key |-> key, members |-> Append(groups[g].members, n)]
                      ELSE groups[g]]
             ELSE Append(groups, [key |-> key, members |-> <<n>>])

\* summary = {field: value for field, value in zip(group_fields, key)},
\* then summary[agg_name] = agg_func(rows) for each aggregate; aggregates
\* maps each output name to its reducer.
summary(rel, group_fields, aggregates, group) ==
    LET member_rows == [m \in 1..Len(group.members) |-> rel[group.members[m]]]
        positions(f) == {m \in 1..Len(group_fields) : group_fields[m] = f}
    IN  [f \in {group_fields[m] : m \in 1..Len(group_fields)}
                   \cup DOMAIN aggregates |->
            IF f \in DOMAIN aggregates THEN aggregates[f][member_rows]
            ELSE group.key[CHOOSE m \in positions(f) :
                              \A m2 \in positions(f) : m2 <= m]]

\* summarize(rel, group_fields, aggregates)
summarize(rel, group_fields, aggregates) ==
    LET groups == summarize_groups(rel, group_fields, Len(rel))
    IN  [g \in 1..Len(groups) |-> summary(rel, group_fields, aggregates, groups[g])]

\* The member rows (positions in rel) of each group summarize emits.
summarize_origin(rel, group_fields) ==
    LET groups == summarize_groups(rel, group_fields, Len(rel))
    IN  [g \in 1..Len(groups) |-> groups[g].members]

\* Mutant: the pass line is printed before the condition is looked at.
ensure_print_first(description, condition, printed) ==
    [raised |-> IF ~condition THEN "Constraint failed: " \o description ELSE NoError,
     out |-> Append(printed, "Constraint passed: " \o description)]

\* Mutant: a false condition is printed and the call returns normally.
ensure_continue(description, condition, printed) ==
    IF ~condition
    THEN [raised |-> NoError,
          out |-> Append(printed, "Constraint failed: " \o description)]
    ELSE [raised |-> NoError,
          out |-> Append(printed, "Constraint passed: " \o description)]

\* ensure(description, condition) with the lines printed so far: raises
\* AssertionError (its message is kept in raised) or prints the pass line.
ensure(description, condition, printed) ==
    IF ~condition
    THEN [raised |-> "Constraint failed: " \o description, out |-> printed]
    ELSE [raised |-> NoError,
          out |-> Append(printed, "Constraint passed: " \o description)]

\* Mutant: the loop ends at the first constraint that gives a message.
RECURSIVE validate_loop_stop(_, _)
validate_loop_stop(constraints, n) ==
    IF n = 0 THEN [errors |-> <<>>, called |-> <<>>]
    ELSE LET before == validate_loop_stop(constraints, n - 1)
             condition == constraints[n].condition
             description == constraints[n].description
         IN  IF Len(before.errors) > 0 THEN before
             ELSE IF "raises" \in DOMAIN condition
             THEN [errors |-> Append(before.errors,
                                 "Error validating constraint '" \o description
                                     \o "': " \o condition.raises),
                   called |-> Append(before.called, n)]
             ELSE IF ~condition.returns
             THEN [errors |-> Append(before.errors,
                                 "Constraint failed: " \o description),
                   called |-> Append(before.called, n)]
             ELSE [errors |-> before.errors, called |-> Append(before.called, n)]

\* Mutant: each message is put in front of the earlier ones.
RECURSIVE validate_loop_newest_first(_, _)
validate_loop_newest_first(constraints, n) ==
    IF n = 0 THEN [errors |-> <<>>, called |-> <<>>]
    ELSE LET before == validate_loop_newest_first(constraints, n - 1)
             condition == constraints[n].condition
             description == constraints[n].description
         IN  IF "raises" \in DOMAIN condition
             THEN [errors |-> <<"Error validating constraint '" \o description
                                   \o "': " \o condition.raises>> \o before.errors,
                   called |-> Append(before.called, n)]
             ELSE IF ~condition.returns
             THEN [errors |-> <<"Constraint failed: " \o description>>
                                  \o before.errors,
                   called |-> Append(before.called, n)]
             ELSE [errors |-> before.errors, called |-> Append(before.called, n)]

\* Mutant: an exception of a condition is not caught and ends the loop.
RECURSIVE validate_loop_uncaught(_, _)
validate_loop_uncaught(constraints, n) ==
    IF n = 0 THEN [errors |-> <<>>, called |-> <<>>, ended |-> FALSE]
    ELSE LET before == validate_loop_uncaught(constraints, n - 1)
             condition == constraints[n].condition
             description == constraints[n].description
         IN  IF before.ended THEN before
             ELSE IF "raises" \in DOMAIN condition
             THEN [errors |-> before.errors,
                   called |-> Append(before.called, n), ended |-> TRUE]
             ELSE IF ~condition.returns
             THEN [errors |-> Append(before.errors,
                                 "Constraint failed: " \o description),
                   called |-> Append(before.called, n), ended |-> FALSE]
             ELSE [errors |-> before.errors,
                   called |-> Append(before.called, n), ended |-> FALSE]

\* framework.py, validate_constraints: the loop over self.constraints after
\* its first n iterations.  A constraint is (description, condition);
\* calling condition either returns a boolean or raises an exception whose
\* str() is kept in raises.  called lists the constraints whose condition
\* was called, in call order.
RECURSIVE validate_loop(_, _)
validate_loop(constraints, n) ==
    IF n = 0 THEN [errors |-> <<>>, called |-> <<>>]
    ELSE LET before == validate_loop(constraints, n - 1)
             condition == constraints[n].condition
             description == constraints[n].description
         IN  IF "raises" \in DOMAIN condition
             THEN [errors |-> Append(before.errors,
                                 "Error validating constraint '" \o description
                                     \o "': " \o condition.raises),
                   called |-> Append(before.called, n)]
             ELSE IF ~condition.returns
             THEN [errors |-> Append(before.errors,
                                 "Constraint failed: " \o description),
                   called |-> Append(before.called, n)]
             ELSE [errors |-> before.errors, called |-> Append(before.called, n)]

\* validate_constraints(self) returns errors.
validate_constraints(constraints) ==
    validate_loop(constraints, Len(constraints)).errors

-----------------------------------------------------------------------------
\* conditions.py: the descriptions of the five ensure calls of
\* run_constraints, in call order.
run_constraints_descriptions == <<
    "No properties with no rooms",
    "No bidders bidding on their own property",
    "No offers on sold properties",
    "No more than 50 premium price band properties on website",
    "No more than 10 offers by a single bidder on a single property" >>

\* run_constraints after its first n ensure calls on the given condition
\* values: an AssertionError ends the run.
RECURSIVE run_constraints(_, _)
run_constraints(conditions, n) ==
    IF n = 0 THEN [raised |-> NoError, out |-> <<>>]
    ELSE LET before == run_constraints(conditions, n - 1)
         IN  IF before.raised # NoError THEN before
             ELSE ensure(run_constraints_descriptions[n], conditions[n], before.out)

\* conditions.py, main: try: run_constraints(); print(success) except
\* AssertionError as e: print(str(e)).  main returns on both paths, so the
\* process ends with status 0.
main(conditions) ==
    LET run == run_constraints(conditions, Len(run_constraints_descriptions))
    IN  [out |-> IF run.raised = NoError
                 THEN Append(run.out, "All constraints evaluated successfully.")
                 ELSE Append(run.out, run.raised),
         raised |-> NoError,
         status |-> 0]

\* Mutant: the command returns after printing the messages.
cli_validate_constraints_return(dsl_file, errors) ==
    [out |-> <<"Validating constraints in " \o dsl_file \o "...">>
                 \o (IF Len(errors) > 0
                     THEN <<"Constraint validation failed:">>
                              \o [n \in 1..Len(errors) |-> "  - " \o errors[n]]
                     ELSE <<"All constraints validated successfully!">>),
     status |-> 0]

\* cli.py, validate_constraints, from errors = framework.validate_constraints()
\* on: the lines printed and the exit status (sys.exit(1), or 0 when the
\* command returns).
cli_validate_constraints(dsl_file, errors) ==
    [out |-> <<"Validating constraints in " \o dsl_file \o "...">>
                 \o (IF Len(errors) > 0
                     THEN <<"Constraint validation failed:">>
                              \o [n \in 1..Len(errors) |-> "  - " \o errors[n]]
                     ELSE <<"All constraints validated successfully!">>),
     status |-> IF Len(errors) > 0 THEN 1 ELSE 0]

-----------------------------------------------------------------------------
\* generated_dsl.py: the task-management relations.

Task == <<
    [id |-> 1, title |-> "Complete project proposal",
     description |-> "Write up the proposal for the new client project",
     status |-> "pending", priority |-> "high", due_date |-> 20230615,
     assigned_to |-> 101],
    [id |-> 2, title |-> "Review code",
     description |-> "Review pull request #42", status |-> "in_progress",
     priority |-> "medium", due_date |-> 20230610, assigned_to |-> 102],
    [id |-> 3, title |-> "Fix login bug",
     description |-> "Users can't log in on Firefox", status |-> "pending",
     priority |-> "high", due_date |-> 20230605, assigned_to |-> 103],
    [id |-> 4, title |-> "Update documentation",
     description |-> "Add new API endpoints to docs",
     status |-> "completed", priority |-> "low", due_date |-> 20230601,
     assigned_to |-> 101],
    [id |-> 5, title |-> "Weekly team meeting",
     description |-> "Regular sync-up with the team", status |-> "pending",
     priority |-> "medium", due_date |-> 20230620, assigned_to |-> 101]
>>

User == <<
    [id |-> 101, name |-> "Alice Smith", email |-> "alice@example.com",
     role |-> "manager"],
    [id |-> 102, name |-> "Bob Johnson", email |-> "bob@example.com",
     role |-> "developer"],
    [id |-> 103, name |-> "Charlie Brown", email |-> "charlie@example.com",
     role |-> "developer"],
    [id |-> 104, name |-> "Diana Williams", email |-> "diana@example.com",
     role |-> "designer"]
>>

\* The one-row Task of the scenario: Task[0] without title and description.
TaskRow == <<
    [id |-> 1, status |-> "pending", priority |-> "high",
     due_date |-> 20230615, assigned_to |-> 101]
>>

\* The one-row User of the scenario: User[0].
UserRow == <<User[1]>>

----------------------------------------------------------------------------
\* tests/test_dvdrental_advanced.py: the sample tables.  Amounts are in
\* cents (2.99 is 299); rental_date and return_date are the digits MMDDhhmm
\* of the 2023 timestamp, which keeps their order.

\* Country table
Country == <<
    [country_id |-> 1, country |-> "USA", last_update |-> "2023-01-01"],
    [country_id |-> 2, country |-> "Canada", last_update |-> "2023-01-01"],
    [country_id |-> 3, country |-> "UK", last_update |-> "2023-01-01"]
>>

\* City table
City == <<
    [city_id |-> 1, city |-> "New York", country_id |-> 1,
     last_update |-> "2023-01-02"],
    [city_id |-> 2, city |-> "Toronto", country_id |-> 2,
     last_update |-> "2023-01-02"],
    [city_id |-> 3, city |-> "London", country_id |-> 3,
     last_update |-> "2023-01-02"]
>>

\* Address table
Address == <<
    [address_id |-> 1, address |-> "123 Main St", address2 |-> "",
     district |-> "Manhattan", city_id |-> 1, postal_code |-> "10001",
     phone |-> "212-555-1234", last_update |-> "2023-01-03"],
    [address_id |-> 2, address |-> "456 Maple Ave",
     address2 |-> "Suite 100", district |-> "North York", city_id |-> 2,
     postal_code |-> "M4B1B3", phone |-> "416-555-5678",
     last_update |-> "2023-01-03"],
    [address_id |-> 3, address |-> "789 Baker St", address2 |-> "",
     district |-> "Central", city_id |-> 3, postal_code |-> "SW1A 1AA",
     phone |-> "020-555-0000", last_update |-> "2023-01-03"]
>>

\* Language table
Language == <<
    [language_id |-> 1, name |-> "English", last_update |-> "2023-01-04"],
    [language_id |-> 2, name |-> "Spanish", last_update |-> "2023-01-04"],
    [language_id |-> 3, name |-> "French", last_update |-> "2023-01-04"]
>>

\* Category table
Category == <<
    [category_id |-> 1, name |-> "Action", last_update |-> "2023-01-05"],
    [category_id |-> 2, name |-> "Comedy", last_update |-> "2023-01-05"],
    [category_id |-> 3, name |-> "Drama", last_update |-> "2023-01-05"],
    [category_id |-> 4, name |-> "Sci-Fi", last_update |-> "2023-01-05"]
>>

\* Film table
Film == <<
    [film_id |-> 1, title |-> "The Matrix",
     description |-> "A computer hacker learns the nature of reality.",
     release_year |-> 1999, language_id |-> 1,
     original_language_id |-> None, rental_duration |-> 3,
     rental_rate |-> 299, length |-> 136, replacement_cost |-> 1999,
     rating |-> "R", special_features |-> "Behind the scenes",
     last_update |-> "2023-01-06"],
    [film_id |-> 2, title |-> "Inception",
     description |-> "A thief who steals secrets through dream-sharing technology.",
     release_year |-> 2010, language_id |-> 1,
     original_language_id |-> None, rental_duration |-> 4,
     rental_rate |-> 399, length |-> 148, replacement_cost |-> 2499,
     rating |-> "PG-13", special_features |-> "Trailers",
     last_update |-> "2023-01-06"],
    [film_id |-> 3, title |-> "Amelie",
     description |-> "A whimsical depiction of contemporary Parisian life.",
     release_year |-> 2001, language_id |-> 3,
     original_language_id |-> None, rental_duration |-> 3,
     rental_rate |-> 249, length |-> 122, replacement_cost |-> 1799,
     rating |-> "R", special_features |-> "Commentary",
     last_update |-> "2023-01-06"],
    [film_id |-> 4, title |-> "Parasite",
     description |-> "A dark comedy thriller about social inequality.",
     release_year |-> 2019, language_id |-> 1,
     original_language_id |-> None, rental_duration |-> 5,
     rental_rate |-> 499, length |-> 132, replacement_cost |-> 2999,
     rating |-> "R", special_features |-> "Deleted scenes",
     last_update |-> "2023-01-06"]
>>

\* Actor table
Actor == <<
    [actor_id |-> 1, first_name |-> "Keanu", last_name |-> "Reeves",
     last_update |-> "2023-01-07"],
    [actor_id |-> 2, first_name |-> "Laurence", last_name |-> "Fishburne",
     last_update |-> "2023-01-07"],
    [actor_id |-> 3, first_name |-> "Leonardo", last_name |-> "DiCaprio",
     last_update |-> "2023-01-07"],
    [actor_id |-> 4, first_name |-> "Audrey", last_name |-> "Tautou",
     last_update |-> "2023-01-07"],
    [actor_id |-> 5, first_name |-> "Song", last_name |-> "Kang-ho",
     last_update |-> "2023-01-07"]
>>

\* Film_Actor table
Film_Actor == <<
    [film_id |-> 1, actor_id |-> 1, last_update |-> "2023-01-08"],
    [film_id |-> 1, actor_id |-> 2, last_update |-> "2023-01-08"],
    [film_id |-> 2, actor_id |-> 3, last_update |-> "2023-01-08"],
    [film_id |-> 3, actor_id |-> 4, last_update |-> "2023-01-08"],
    [film_id |-> 4, actor_id |-> 5, last_update |-> "2023-01-08"]
>>

\* Film_Category table
Film_Category == <<
    [film_id |-> 1, category_id |-> 4, last_update |-> "2023-01-09"],
    [film_id |-> 2, category_id |-> 4, last_update |-> "2023-01-09"],
    [film_id |-> 3, category_id |-> 3, last_update |-> "2023-01-09"],
    [film_id |-> 4, category_id |-> 3, last_update |-> "2023-01-09"]
>>

\* Inventory table
Inventory == <<
    [inventory_id |-> 1, film_id |-> 1, store_id |-> 1,
     last_update |-> "2023-01-10"],
    [inventory_id |-> 2, film_id |-> 2, store_id |-> 1,
     last_update |-> "2023-01-10"],
    [inventory_id |-> 3, film_id |-> 3, store_id |-> 2,
     last_update |-> "2023-01-10"],
    [inventory_id |-> 4, film_id |-> 4, store_id |-> 2,
     last_update |-> "2023-01-10"]
>>

\* Staff table
Staff == <<
    [staff_id |-> 1, first_name |-> "Carol", last_name |-> "White",
     address_id |-> 1, email |-> "carol@example.com", store_id |-> 1,
     active |-> TRUE, username |-> "carolw", password |-> "pass",
     last_update |-> "2023-01-11", picture |-> None],
    [staff_id |-> 2, first_name |-> "Dave", last_name |-> "Brown",
     address_id |-> 2, email |-> "dave@example.com", store_id |-> 2,
     active |-> TRUE, username |-> "daveb", password |-> "pass",
     last_update |-> "2023-01-11", picture |-> None],
    [staff_id |-> 3, first_name |-> "Eve", last_name |-> "Black",
     address_id |-> 3, email |-> "eve@example.com", store_id |-> 1,
     active |-> TRUE, username |-> "eveb", password |-> "pass",
     last_update |-> "2023-01-11", picture |-> None]
>>

\* Store table
Store == <<
    [store_id |-> 1, manager_staff_id |-> 1, address_id |-> 1,
     last_update |-> "2023-01-12"],
    [store_id |-> 2, manager_staff_id |-> 2, address_id |-> 2,
     last_update |-> "2023-01-12"]
>>

\* Customer table
Customer == <<
    [customer_id |-> 1, store_id |-> 1, first_name |-> "Alice",
     last_name |-> "Smith", email |-> "alice@example.com",
     address_id |-> 1, active |-> TRUE, create_date |-> "2023-01-13",
     last_update |-> "2023-01-13"],
    [customer_id |-> 2, store_id |-> 2, first_name |-> "Bob",
     last_name |-> "Jones", email |-> "bob@example.com", address_id |-> 2,
     active |-> TRUE, create_date |-> "2023-01-13",
     last_update |-> "2023-01-13"],
    [customer_id |-> 3, store_id |-> 1, first_name |-> "Charlie",
     last_name |-> "Doe", email |-> "charlie@example.com",
     address_id |-> 1, active |-> FALSE, create_date |-> "2023-01-13",
     last_update |-> "2023-01-13"],
    [customer_id |-> 4, store_id |-> 1, first_name |-> "Dana",
     last_name |-> "Scully", email |-> "dana@example.com",
     address_id |-> 3, active |-> TRUE, create_date |-> "2023-01-13",
     last_update |-> "2023-01-13"]
>>

\* Rental table
Rental == <<
    [rental_id |-> 1, rental_date |-> 1141000, inventory_id |-> 1,
     customer_id |-> 1, return_date |-> 1151000, staff_id |-> 1,
     last_update |-> "2023-01-14 11:00:00"],
    [rental_id |-> 2, rental_date |-> 1151200, inventory_id |-> 2,
     customer_id |-> 2, return_date |-> 1161200, staff_id |-> 1,
     last_update |-> "2023-01-15 13:00:00"],
    [rental_id |-> 3, rental_date |-> 1161400, inventory_id |-> 3,
     customer_id |-> 3, return_date |-> 1171400, staff_id |-> 3,
     last_update |-> "2023-01-16 15:00:00"],
    [rental_id |-> 4, rental_date |-> 1171600, inventory_id |-> 4,
     customer_id |-> 4, return_date |-> 1181600, staff_id |-> 2,
     last_update |-> "2023-01-17 17:00:00"]
>>

\* Payment table
Payment == <<
    [payment_id |-> 1, customer_id |-> 1, rental_id |-> 1, amount |-> 299,
     payment_date |-> "2023-01-15 11:00:00",
     last_update |-> "2023-01-15 11:00:00"],
    [payment_id |-> 2, customer_id |-> 2, rental_id |-> 2, amount |-> 399,
     payment_date |-> "2023-01-16 12:30:00",
     last_update |-> "2023-01-16 12:30:00"],
    [payment_id |-> 3, customer_id |-> 3, rental_id |-> 3, amount |-> 249,
     payment_date |-> "2023-01-17 14:30:00",
     last_update |-> "2023-01-17 14:30:00"],
    [payment_id |-> 4, customer_id |-> 4, rental_id |-> 4, amount |-> 499,
     payment_date |-> "2023-01-18 16:30:00",
     last_update |-> "2023-01-18 16:30:00"]
>>


\* films_with_orig = [f for f in Film if f["original_language_id"] is not None]
films_with_orig_pred(f) == f.original_language_id # None
films_with_orig == SelectSeq(Film, films_with_orig_pred)

\* lambda row: abs(row.get("amount", 0) - row.get("rental_rate", 0)) > 0.001
amount_mismatch(row) ==
    LET amount == IF "amount" \in DOMAIN row THEN row.amount ELSE 0
        rate == IF "rental_rate" \in DOMAIN row THEN row.rental_rate ELSE 0
    IN  amount # rate

\* manager = [s for s in Staff if s["staff_id"] == store["manager_staff_id"]]
manager(store) ==
    LET is_manager(s) == s.staff_id = store.manager_staff_id
    IN  SelectSeq(Staff, is_manager)

late_return(row) == row.return_date <= row.rental_date
rate_not_below_cost(row) == row.rental_rate >= row.replacement_cost
non_positive_length(row) == row.length <= 0

\* The two ensure calls of the loop body of (L), for Store[n] onwards.
RECURSIVE store_manager_ensures(_)
store_manager_ensures(n) ==
    IF n > Len(Store) THEN <<>>
    ELSE <<[description |-> "Store manager must exist",
            condition |-> Len(manager(Store[n])) = 1],
           [description |-> "Store manager must be associated with the store",
            condition |-> /\ Len(manager(Store[n])) >= 1
                          /\ manager(Store[n])[1].store_id = Store[n].store_id]>>
         \o store_manager_ensures(n + 1)

\* run_dvdrental_advanced_constraints: its ensure calls in program order,
\* each with its description and the condition it is passed.
dvdrental_ensures ==
    <<[description |-> "Every city must reference a valid country",
       condition |-> Len(join(City, Country)) = Len(City)],
      [description |-> "Every address must reference a valid city",
       condition |-> Len(join(Address, City)) = Len(Address)],
      [description |-> "Every customer must reference a valid store",
       condition |-> Len(join(Customer, Store)) = Len(Customer)],
      [description |-> "Every customer must reference a valid address",
       condition |-> Len(join(Customer, Address)) = Len(Customer)],
      [description |-> "Every film must reference a valid language",
       condition |-> Len(join(Film, Language)) = Len(Film)]>>
    \o (IF Len(films_with_orig) > 0
        THEN <<[description |->
                  "Films with original_language_id must reference a valid language",
                condition |->
                  Len(join(films_with_orig, Language)) = Len(films_with_orig)]>>
        ELSE <<>>)
    \o
    <<[description |-> "Every inventory record must reference a valid film",
       condition |-> Len(join(Inventory, Film)) = Len(Inventory)],
      [description |-> "Every inventory record must reference a valid store",
       condition |-> Len(join(Inventory, Store)) = Len(Inventory)],
      [description |-> "Every rental must reference a valid inventory",
       condition |-> Len(join(Rental, Inventory)) = Len(Rental)],
      [description |-> "Every rental must reference a valid customer",
       condition |-> Len(join(Rental, Customer)) = Len(Rental)],
      [description |-> "Every rental must reference a valid staff",
       condition |-> Len(join(Rental, Staff)) = Len(Rental)],
      [description |-> "Every payment must reference a valid rental",
       condition |-> Len(join(Payment, Rental)) = Len(Payment)],
      [description |-> "Every payment must reference a valid customer",
       condition |-> Len(join(Payment, Customer)) = Len(Payment)],
      [description |-> "Every payment amount must match the film's rental rate",
       condition |->
         LET full_payment_info ==
                 join(join(join(Rental, Inventory), Film), Payment)
         IN  Len(restrict(full_payment_info,
                          [row \in rows(full_payment_info) |->
                              amount_mismatch(row)])) = 0],
      [description |-> "Every film_actor record must reference a valid film",
       condition |-> Len(join(Film_Actor, Film)) = Len(Film_Actor)],
      [description |-> "Every film_actor record must reference a valid actor",
       condition |-> Len(join(Film_Actor, Actor)) = Len(Film_Actor)],
      [description |-> "Every film_category record must reference a valid film",
       condition |-> Len(join(Film_Category, Film)) = Len(Film_Category)],
      [description |-> "Every film_category record must reference a valid category",
       condition |-> Len(join(Film_Category, Category)) = Len(Film_Category)]>>
    \o store_manager_ensures(1)
    \o
    <<[description |-> "Every rental's return_date must be later than its rental_date",
       condition |-> Len(restrict(Rental, [row \in rows(Rental) |-> late_return(row)])) = 0],
      [description |-> "Every film's rental_rate should be less than its replacement_cost",
       condition |-> Len(restrict(Film, [row \in rows(Film) |-> rate_not_below_cost(row)])) = 0],
      [description |-> "Every film's length should be greater than 0",
       condition |-> Len(restrict(Film, [row \in rows(Film) |-> non_positive_length(row)])) = 0],
      [description |-> "Every active customer must have at least one rental",
       condition |->
         {Customer[n].customer_id : n \in {m \in 1..Len(Customer) : Customer[m].active}}
           \subseteq {Rental[n].customer_id : n \in 1..Len(Rental)}]>>

----------------------------------------------------------------------------
\* tests/test_conditions.py: the sample relations and the five rules of its
\* run_constraints.

price_to_price_band(price) ==
    IF price >= 300000 THEN "premium"
    ELSE IF price >= 150000 THEN "mid"
    ELSE "economy"

PropertyInfo == <<
    [id |-> 1, num_rooms |-> 3, price |-> 200000],
    [id |-> 2, num_rooms |-> 1, price |-> 150000],
    [id |-> 3, num_rooms |-> 2, price |-> 100000] >>

Offer == <<
    [id |-> 101, address |-> "123 Main St", bidder_name |-> "Alice",
     bidder_address |-> "456 Elm St", offer_date |-> 20200101],
    [id |-> 102, address |-> "123 Main St", bidder_name |-> "Bob",
     bidder_address |-> "789 Maple Ave", offer_date |-> 20200102],
    [id |-> 103, address |-> "789 Oak Ave", bidder_name |-> "Charlie",
     bidder_address |-> "321 Cedar Blvd", offer_date |-> 20200103] >>

Acceptance == <<
    [id |-> 201, address |-> "123 Main St", decision_date |-> 20200105],
    [id |-> 202, address |-> "789 Oak Ave", decision_date |-> 20200104] >>

PropertyForWebSite == <<
    [id |-> 1, price |-> 350000],
    [id |-> 2, price |-> 150000],
    [id |-> 3, price |-> 80000] >>

\* joined_offers = join(Offer, project(Acceptance, 'address', 'decision_date'))
joined_offers == join(Offer, project(Acceptance, <<"address", "decision_date">>))

\* extended_properties = extend(PropertyForWebSite, 'price_band', ...)
extended_properties ==
    extend(PropertyForWebSite, "price_band",
           [row \in rows(PropertyForWebSite) |-> price_to_price_band(row.price)])

\* summarized_offers = summarize(Offer, [...], {'num_offers': len(rows)})
summarized_offers ==
    summarize(Offer, <<"address", "bidder_name", "bidder_address">>,
              [num_offers |-> [member_rows \in Seq(rows(Offer)) |-> Len(member_rows)]])

\* The ensure calls of run_constraints in program order, each with its
\* description and the condition it is passed.
test_run_constraints_ensures ==
    <<[description |-> "No properties with no rooms",
       condition |->
           Len(restrict(PropertyInfo,
                        [row \in rows(PropertyInfo) |-> row.num_rooms < 1])) = 0],
      [description |-> "No bidders bidding on their own property",
       condition |->
           Len(restrict(Offer,
                        [row \in rows(Offer) |->
                            row.bidder_address = row.address])) = 0],
      [description |-> "No offers on sold properties",
       condition |->
           Len(restrict(joined_offers,
                        [row \in rows(joined_offers) |->
                            row.offer_date > row.decision_date])) = 0],
      [description |-> "No more than 50 premium price band properties on website",
       condition |->
           Len(restrict(extended_properties,
                        [row \in rows(extended_properties) |->
                            row.price_band = "premium"])) < 50],
      [description |->
           "No more than 10 offers by a single bidder on a single property",
       condition |->
           Len(restrict(summarized_offers,
                        [row \in rows(summarized_offers) |->
                            row.num_offers > 10])) = 0]>>

-----------------------------------------------------------------------------
\* relational_gpt/parser.py: the real-estate relations and the six rules of
\* its run_constraints (price_to_price_band is the same function as above).

RealEstatePropertyInfo == <<
    [id |-> 1, address |-> "123 Main St", num_rooms |-> 3, price |-> 200000,
     status |-> "available"],
    [id |-> 2, address |-> "456 Elm St", num_rooms |-> 1, price |-> 150000,
     status |-> "available"],
    [id |-> 3, address |-> "789 Oak Ave", num_rooms |-> 2, price |-> 100000,
     status |-> "available"],
    [id |-> 4, address |-> "321 Pine Rd", num_rooms |-> 4, price |-> 350000,
     status |-> "available"],
    [id |-> 5, address |-> "654 Maple Dr", num_rooms |-> 3, price |-> 275000,
     status |-> "sold"] >>

RealEstateOffer == <<
    [id |-> 101, property_id |-> 1, bidder_name |-> "Alice",
     bidder_address |-> "111 First St", offer_amount |-> 195000,
     offer_date |-> 20230101],
    [id |-> 102, property_id |-> 1, bidder_name |-> "Bob",
     bidder_address |-> "222 Second St", offer_amount |-> 198000,
     offer_date |-> 20230102],
    [id |-> 103, property_id |-> 3, bidder_name |-> "Charlie",
     bidder_address |-> "333 Third St", offer_amount |-> 95000,
     offer_date |-> 20230103],
    [id |-> 104, property_id |-> 5, bidder_name |-> "David",
     bidder_address |-> "444 Fourth St", offer_amount |-> 270000,
     offer_date |-> 20230104] >>

RealEstatePropertyAgent == <<
    [property_id |-> 1, agent_id |-> 301],
    [property_id |-> 2, agent_id |-> 302],
    [property_id |-> 3, agent_id |-> 301],
    [property_id |-> 4, agent_id |-> 302],
    [property_id |-> 5, agent_id |-> 301] >>

\* properties_with_bidders = join(Offer, project(PropertyInfo, 'id', 'address'))
properties_with_bidders ==
    join(RealEstateOffer, project(RealEstatePropertyInfo, <<"id", "address">>))

\* sold_properties = restrict(PropertyInfo, lambda row: row['status'] == 'sold')
sold_properties ==
    restrict(RealEstatePropertyInfo,
             [row \in rows(RealEstatePropertyInfo) |-> row.status = "sold"])

\* offers_on_sold = join(Offer, project(sold_properties, 'id'))
offers_on_sold == join(RealEstateOffer, project(sold_properties, <<"id">>))

\* extend(PropertyInfo, 'price_band', ...)
properties_with_band ==
    extend(RealEstatePropertyInfo, "price_band",
           [row \in rows(RealEstatePropertyInfo) |-> price_to_price_band(row.price)])

\* offers_per_property = summarize(Offer, ['property_id'], {'num_offers': ...})
offers_per_property ==
    summarize(RealEstateOffer, <<"property_id">>,
              [num_offers |->
                  [member_rows \in Seq(rows(RealEstateOffer)) |-> Len(member_rows)]])

\* project(PropertyInfo, 'id')
property_ids == project(RealEstatePropertyInfo, <<"id">>)

\* lambda p: len(restrict(PropertyAgent,
\*                        lambda pa: pa['property_id'] == p['id'])) == 0
has_no_agent(p) ==
    Len(restrict(RealEstatePropertyAgent,
                 [pa \in rows(RealEstatePropertyAgent) |-> pa.property_id = p.id])) = 0

\* The ensure calls of run_constraints in program order, each with its
\* description and the condition it is passed.
real_estate_ensures ==
    <<[description |-> "No properties with no rooms",
       condition |->
           Len(restrict(RealEstatePropertyInfo,
                        [row \in rows(RealEstatePropertyInfo) |->
                            row.num_rooms < 1])) = 0],
      [description |-> "No bidders bidding on their own property",
       condition |->
           Len(restrict(properties_with_bidders,
                        [row \in rows(properties_with_bidders) |->
                            row.bidder_address = row.address])) = 0],
      [description |-> "No offers on already sold properties",
       condition |-> Len(offers_on_sold) = 0],
      [description |-> "No more than 50 premium price band properties",
       condition |->
           Len(restrict(properties_with_band,
                        [row \in rows(properties_with_band) |->
                            row.price_band = "premium"])) < 50],
      [description |-> "No more than 10 offers on a single property",
       condition |->
           Len(restrict(offers_per_property,
                        [row \in rows(offers_per_property) |->
                            row.num_offers > 10])) = 0],
      [description |-> "All properties must have an agent",
       condition |->
           Len(restrict(property_ids,
                        [p \in rows(property_ids) |-> has_no_agent(p)])) = 0]>>

-----------------------------------------------------------------------------
\* The state machine: operators applied to generated relations.

InitGenerated ==
    /\ suite = "generated"
    /\ arg = <<>>
    /\ \E n1 \in 0..MaxRows : \E n2 \in 0..(MaxRows - n1) :
          /\ rel1 \in [1..n1 -> Records]
          /\ rel2 \in [1..n2 -> Records]

\* The relations of the task-management scenario, whole or as one-row
\* samples, with User as written or projected on id.
InitTask ==
    /\ suite = "task"
    /\ arg = <<>>
    /\ rel1 \in {Task, TaskRow}
    /\ rel2 \in {User, UserRow, project(User, <<"id">>), project(UserRow, <<"id">>)}

\* test_dvdrental_advanced_constraints about to call the evaluator.
InitDvdrental ==
    /\ suite = "dvdrental"
    /\ arg = <<>>
    /\ rel1 = <<>>
    /\ rel2 = <<>>

\* test_run_constraints about to call run_constraints.
InitTestConditions ==
    /\ suite = "test_conditions"
    /\ arg = <<>>
    /\ rel1 = <<>>
    /\ rel2 = <<>>

\* The real-estate module about to call its run_constraints.
InitRealEstate ==
    /\ suite = "real_estate"
    /\ arg = <<>>
    /\ rel1 = <<>>
    /\ rel2 = <<>>

\* Predicates handed to restrict: always true, always false, k is 1,
\* the record has a field x, k and x read equal.
Predicates ==
    {[row \in Records |-> TRUE],
     [row \in Records |-> FALSE],
     [row \in Records |-> get(row, "k") = 1],
     [row \in Records |-> "x" \in keys(row)],
     [row \in Records |-> get(row, "k") = get(row, "x")]}

\* Field lists handed to project and to summarize: up to two names, repeated or absent from
\* every record ("z") included.
FieldLists == UNION {[1..m -> Fields \cup {"z"}] : m \in 0..2}

\* Functions handed to extend: the number of fields of the row, the value
\* read at x, and ten more than the value at k (0 without k).
Computes ==
    {[row \in Records |-> Cardinality(keys(row))],
     [row \in Records |-> get(row, "x")],
     [row \in Records |-> IF "k" \in keys(row) THEN row["k"] + 10 ELSE 0]}

\* Names handed to extend as the new field: one no record has, and the two
\* a record may have.
NewFields == Fields \cup {"y"}

\* Aggregate dicts handed to summarize, by name: the number of member
\* rows, alone or with the value the first member reads at x.
Aggregates(name) ==
    IF name = "count"
    THEN [num_offers |-> [member_rows \in Seq(Records) |-> Len(member_rows)]]
    ELSE [num_offers |-> [member_rows \in Seq(Records) |-> Len(member_rows)],
          first_x |-> [member_rows \in Seq(Records) |-> get(member_rows[1], "x")]]

AggregateNames == {"count", "count_first_x"}

\* One generated relation, the argument of a one-relation operator.
InitUnary ==
    /\ suite = "unary"
    /\ rel1 \in Relations(MaxRel)
    /\ rel2 = <<>>
    /\ arg = <<>>

\* run_constraints over any contents of the module's relations: arg[n] is
\* the value the n-th ensure call's relational expression has on them.
InitConditions ==
    /\ suite = "conditions"
    /\ rel1 = <<>>
    /\ rel2 = <<>>
    /\ arg \in [1..Len(run_constraints_descriptions) -> BOOLEAN]

\* main over any contents of the module's relations (arg as above).
InitMain ==
    /\ suite = "main"
    /\ rel1 = <<>>
    /\ rel2 = <<>>
    /\ arg \in [1..Len(run_constraints_descriptions) -> BOOLEAN]

\* The DSL file named on the command line.
DslFile == "dsl.py"

\* What calling a registered condition does: return a boolean, or raise.
ConditionCalls ==
    {[returns |-> TRUE], [returns |-> FALSE], [raises |-> "division by zero"]}

\* Descriptions of registered constraints.
Descriptions == {"d1", "d2"}

\* A framework with up to MaxChecks registered constraints (arg is
\* self.constraints).
InitFramework ==
    /\ suite = "framework"
    /\ rel1 = <<>>
    /\ rel2 = <<>>
    /\ arg \in UNION {[1..m -> [description : Descriptions, condition : ConditionCalls]] :
                       m \in 0..MaxChecks}

Init ==
    /\ (InitGenerated \/ InitTask \/ InitDvdrental \/ InitUnary
          \/ InitConditions \/ InitFramework \/ InitMain \/ InitTestConditions
          \/ InitRealEstate)
    /\ result = <<>>
    /\ origin = <<>>
    /\ op = "none"
    /\ pc = 1
    /\ out = <<>>
    /\ raised = NoError
    /\ status = None
    /\ alias = <<>>

\* result = join(rel1, rel2)
Join ==
    /\ op = "none"
    /\ suite \in {"generated", "task"}
    /\ result' = join(rel1, rel2)
    /\ origin' = join_origin(rel1, rel2)
    /\ alias' = [n \in 1..Len(result') |-> 0]
    /\ op' = "join"
    /\ UNCHANGED <<suite, rel1, rel2, arg, pc, out, raised, status>>

\* result = restrict(rel1, predicate)
Restrict ==
    /\ op = "none"
    /\ suite = "unary"
    /\ \E predicate \in Predicates :
          /\ arg' = predicate
          /\ result' = restrict(rel1, predicate)
          /\ alias' = restrict_rows(rel1, predicate)
    /\ origin' = <<>>
    /\ op' = "restrict"
    /\ UNCHANGED <<suite, rel1, rel2, pc, out, raised, status>>

\* result = project(rel1, *fields)
Project ==
    /\ op = "none"
    /\ suite = "unary"
    /\ \E fields \in FieldLists :
          /\ arg' = fields
          /\ result' = project(rel1, fields)
          /\ alias' = [n \in 1..Len(result') |-> 0]
    /\ origin' = <<>>
    /\ op' = "project"
    /\ UNCHANGED <<suite, rel1, rel2, pc, out, raised, status>>

\* run_dvdrental_advanced_constraints up to and including its next ensure
\* call; an AssertionError ends the run.
DvdrentalEnsure ==
    /\ suite = "dvdrental"
    /\ raised = NoError
    /\ pc <= Len(dvdrental_ensures)
    /\ LET e == dvdrental_ensures[pc]
           r == ensure(e.description, e.condition, out)
       IN  /\ raised' = r.raised
           /\ out' = r.out
    /\ pc' = pc + 1
    /\ UNCHANGED <<suite, rel1, rel2, arg, result, origin, op, status, alias>>

\* Mutant: extend writes the new field into the rows of its input.
Extend_in_place ==
    /\ op = "none"
    /\ suite = "unary"
    /\ \E new_field \in NewFields : \E func \in Computes :
          /\ arg' = [new_field |-> new_field, func |-> func]
          /\ result' = extend(rel1, new_field, func)
          /\ rel1' = result'
          /\ alias' = [n \in 1..Len(result') |-> n]
    /\ origin' = <<>>
    /\ op' = "extend"
    /\ UNCHANGED <<suite, rel2, pc, out, raised, status>>

\* result = extend(rel1, new_field, func)
Extend ==
    /\ op = "none"
    /\ suite = "unary"
    /\ \E new_field \in NewFields : \E func \in Computes :
          /\ arg' = [new_field |-> new_field, func |-> func]
          /\ result' = extend(rel1, new_field, func)
          /\ alias' = [n \in 1..Len(result') |-> 0]
    /\ origin' = <<>>
    /\ op' = "extend"
    /\ UNCHANGED <<suite, rel1, rel2, pc, out, raised, status>>

\* result = summarize(rel1, group_fields, aggregates)
Summarize ==
    /\ op = "none"
    /\ suite = "unary"
    /\ \E group_fields \in FieldLists : \E name \in AggregateNames :
          /\ arg' = [group_fields |-> group_fields, aggregates |-> name]
          /\ result' = summarize(rel1, group_fields, Aggregates(name))
          /\ origin' = summarize_origin(rel1, group_fields)
          /\ alias' = [n \in 1..Len(result') |-> 0]
    /\ op' = "summarize"
    /\ UNCHANGED <<suite, rel1, rel2, pc, out, raised, status>>

\* conditions.py, run_constraints: the next ensure call; an AssertionError
\* ends the run.
RunConstraints ==
    /\ suite = "conditions"
    /\ raised = NoError
    /\ pc <= Len(run_constraints_descriptions)
    /\ LET r == ensure(run_constraints_descriptions[pc], arg[pc], out)
       IN  /\ raised' = r.raised
           /\ out' = r.out
    /\ pc' = pc + 1
    /\ UNCHANGED <<suite, rel1, rel2, arg, result, origin, op, status, alias>>

\* result = self.validate_constraints(); origin lists the constraints whose
\* condition was called.
ValidateConstraints ==
    /\ op = "none"
    /\ suite = "framework"
    /\ result' = validate_constraints(arg)
    /\ origin' = validate_loop(arg, Len(arg)).called
    /\ alias' = <<>>
    /\ op' = "validate_constraints"
    /\ UNCHANGED <<suite, rel1, rel2, arg, pc, out, raised, status>>

\* tests/test_conditions.py, run_constraints up to and including its next
\* ensure call; an AssertionError ends the run.
TestRunConstraints ==
    /\ suite = "test_conditions"
    /\ raised = NoError
    /\ pc <= Len(test_run_constraints_ensures)
    /\ LET e == test_run_constraints_ensures[pc]
           r == ensure(e.description, e.condition, out)
       IN  /\ raised' = r.raised
           /\ out' = r.out
    /\ pc' = pc + 1
    /\ UNCHANGED <<suite, rel1, rel2, arg, result, origin, op, status, alias>>

\* relational_gpt/parser.py, run_constraints up to and including its next
\* ensure call; an AssertionError ends the run.
RealEstateRunConstraints ==
    /\ suite = "real_estate"
    /\ raised = NoError
    /\ pc <= Len(real_estate_ensures)
    /\ LET e == real_estate_ensures[pc]
           r == ensure(e.description, e.condition, out)
       IN  /\ raised' = r.raised
           /\ out' = r.out
    /\ pc' = pc + 1
    /\ UNCHANGED <<suite, rel1, rel2, arg, result, origin, op, status, alias>>

\* conditions.py, main, run to the end of the process.
Main ==
    /\ op = "none"
    /\ suite = "main"
    /\ LET m == main(arg)
       IN  /\ out' = m.out
           /\ raised' = m.raised
           /\ status' = m.status
    /\ op' = "main"
    /\ UNCHANGED <<suite, rel1, rel2, arg, result, origin, pc, alias>>

\* cli.py, the validate command on a framework holding self.constraints =
\* arg; result is the local errors.
CliValidateConstraints ==
    /\ op = "none"
    /\ suite = "framework"
    /\ result' = validate_constraints(arg)
    /\ origin' = validate_loop(arg, Len(arg)).called
    /\ LET c == cli_validate_constraints(DslFile, validate_constraints(arg))
       IN  /\ out' = c.out
           /\ status' = c.status
    /\ op' = "cli_validate"
    /\ UNCHANGED <<suite, rel1, rel2, arg, pc, raised, alias>>

\* The caller assigns result[n][field] = value after restrict, project,
\* extend or summarize returned: the dict is changed in place, so an input
\* row that is the same dict shows the new value too.
SetField ==
    /\ suite = "unary"
    /\ op \in {"restrict", "project", "extend", "summarize"}
    /\ Len(rel1) <= MaxAssigned
    /\ \E n \in 1..Len(result) : \E field \in Fields : \E value \in Scalars :
          LET row == [f \in keys(result[n]) \cup {field} |->
                         IF f = field THEN value ELSE result[n][f]]
          IN  /\ result' = [result EXCEPT ![n] = row]
              /\ rel1' = IF alias[n] = 0 THEN rel1
                         ELSE [rel1 EXCEPT ![alias[n]] = row]
    /\ op' = "assign"
    /\ UNCHANGED <<suite, rel2, arg, origin, pc, out, raised, status, alias>>

Next ==
    \/ Join \/ DvdrentalEnsure \/ Restrict \/ Project \/ Extend \/ Summarize
    \/ RunConstraints \/ ValidateConstraints
    \/ SetField \/ Main \/ CliValidateConstraints
    \/ TestRunConstraints \/ RealEstateRunConstraints

Spec == Init /\ [][Next]_vars

----------------------------------------------------------------------------
\* Vocabulary of the properties of join, stated on the inputs rel1 (A, the
\* child) and rel2 (B, the parent) and on the returned result.

\* What a record shows at field k: its value, None when it has no such field.
Shown(row, k) == IF k \in DOMAIN row THEN row[k] ELSE None

\* The field names the first records of rel1 and rel2 have in common.
FirstCommon == (DOMAIN rel1[1]) \cap (DOMAIN rel2[1])

\* Rows i of rel1 and j of rel2 show equal values on every common field.
Agree(i, j) == \A k \in FirstCommon : Shown(rel1[i], k) = Shown(rel2[j], k)

\* rec is rowA's fields overlaid by rowB's fields.
IsOverlay(rec, rowA, rowB) ==
    /\ DOMAIN rec = (DOMAIN rowA) \cup (DOMAIN rowB)
    /\ \A f \in DOMAIN rowB : rec[f] = rowB[f]
    /\ \A f \in (DOMAIN rowA) \ (DOMAIN rowB) : rec[f] = rowA[f]

\* Pair (i, j) comes before pair (i2, j2) in nested-loop order.
Before(p, q) == p[1] < q[1] \/ (p[1] = q[1] /\ p[2] < q[2])

\* No record of rel1 has a field name in common with a record of rel2.
NoSharedField ==
    \A i \in 1..Len(rel1) : \A j \in 1..Len(rel2) :
        (DOMAIN rel1[i]) \cap (DOMAIN rel2[j]) = {}

\* Every record has field key, the key values of rel2 are pairwise distinct,
\* and every key value of rel1 occurs in rel2.
References(key) ==
    /\ \A i \in 1..Len(rel1) : key \in DOMAIN rel1[i]
    /\ \A j \in 1..Len(rel2) : key \in DOMAIN rel2[j]
    /\ \A j1, j2 \in 1..Len(rel2) : rel2[j1][key] = rel2[j2][key] => j1 = j2
    /\ \A i \in 1..Len(rel1) : \E j \in 1..Len(rel2) : rel1[i][key] = rel2[j][key]

----------------------------------------------------------------------------
\* C1: whenever every Child row references a Parent row by a shared key
\* field, Parent key values are unique and every Child key value occurs
\* among the Parent rows, len(join(Child, Parent)) == len(Child).
C1_ReferencedChildrenAllJoin ==
    (suite = "generated" /\ op = "join") =>
        \A key \in Fields : References(key) => Len(result) = Len(rel1)

\* C2 as claimed: join of relations whose records share no field name
\* raises no error and returns an empty relation (stated for records that
\* have at least one field).
C2_NoSharedFieldGivesEmpty ==
    (op = "join" /\ NoSharedField
       /\ \A i \in 1..Len(rel1) : DOMAIN rel1[i] # {}
       /\ \A j \in 1..Len(rel2) : DOMAIN rel2[j] # {}) =>
        (raised = NoError /\ Len(result) = 0)

\* C2 as amended: join of relations whose records share no field name
\* raises no error and returns one record for every pair of rows, so
\* len(A) * len(B) records; it is empty only when A or B is empty.
C2_NoSharedFieldGivesProduct ==
    (op = "join" /\ NoSharedField) =>
        /\ raised = NoError
        /\ Len(result) = Len(rel1) * Len(rel2)
        /\ \A i \in 1..Len(rel1) : \A j \in 1..Len(rel2) :
              \E n \in 1..Len(result) :
                  origin[n] = <<i, j>> /\ IsOverlay(result[n], rel1[i], rel2[j])

\* Witness of C2: two non-empty relations without a shared field name joined.
C2_Witness ==
    /\ op = "join"
    /\ NoSharedField
    /\ Len(rel1) = 2 /\ Len(rel2) = 2
    /\ DOMAIN rel1[1] # {} /\ DOMAIN rel2[1] # {}
    /\ Len(result) = 4

\* C3: with the one-row Task (id 1, assigned_to 101) and the one-row User
\* (id 101), join(Task, project(User, 'id')) has length 1 and its record
\* carries all of Task's fields unchanged.
C3_TaskJoinsItsUser ==
    (suite = "task" /\ op = "join" /\ Len(rel1) = 1 /\ Len(rel2) = 1
       /\ rel1 = TaskRow /\ rel2 = project(UserRow, <<"id">>)) =>
        /\ Len(result) = 1
        /\ \A f \in DOMAIN TaskRow[1] : result[1][f] = TaskRow[1][f]

\* C4: run_dvdrental_advanced_constraints on the sample tables completes
\* without any ensure call raising.
C4_DvdrentalNeverRaises ==
    suite = "dvdrental" => raised = NoError

\* C5: for non-empty A and B, pair (rowA, rowB) contributes an output record
\* iff the two rows show equal values on every field common to the first
\* records (an absent field shows None, and None equals None); a matching
\* pair contributes exactly one record, any other pair none.
C5_JoinMatchesExactly ==
    (op = "join" /\ Len(rel1) > 0 /\ Len(rel2) > 0) =>
        /\ Len(origin) = Len(result)
        /\ \A n \in 1..Len(origin) :
              origin[n][1] \in 1..Len(rel1) /\ origin[n][2] \in 1..Len(rel2)
        /\ \A i \in 1..Len(rel1) : \A j \in 1..Len(rel2) :
              Cardinality({n \in 1..Len(origin) : origin[n] = <<i, j>>})
                  = IF Agree(i, j) THEN 1 ELSE 0

\* Witness of C5: a pair matched because both rows lack a common field,
\* next to a pair that does not match.
C5_Witness ==
    /\ op = "join" /\ Len(rel1) > 0 /\ Len(rel2) > 0
    /\ \E i \in 1..Len(rel1) : \E j \in 1..Len(rel2) : \E k \in FirstCommon :
          /\ k \notin DOMAIN rel1[i] /\ k \notin DOMAIN rel2[j]
          /\ \E n \in 1..Len(origin) : origin[n] = <<i, j>>
    /\ \E i \in 1..Len(rel1) : \E j \in 1..Len(rel2) : ~Agree(i, j)

\* C6: join with an empty input is empty: join([], R) == [] and
\* join(R, []) == [] for every R, also a non-empty one.
C6_JoinWithEmptyIsEmpty ==
    (op = "join" /\ (Len(rel1) = 0 \/ Len(rel2) = 0)) => Len(result) = 0

\* Witness of C6: an empty relation joined with a non-empty one.
C6_Witness ==
    /\ op = "join" /\ Len(rel1) = 0 /\ Len(rel2) = 2
    /\ DOMAIN rel2[1] = Fields
    /\ Len(result) = 0

\* C7: if the common keys identify Parent rows uniquely and
\* len(join(Child, Parent)) == len(Child), every Child row matches exactly
\* one Parent row on the common keys.
C7_EqualLengthCertifiesOneParent ==
    (op = "join" /\ Len(rel1) > 0 /\ Len(rel2) > 0
       /\ (\A j1, j2 \in 1..Len(rel2) :
              (\A k \in FirstCommon : Shown(rel2[j1], k) = Shown(rel2[j2], k))
                  => j1 = j2)
       /\ Len(result) = Len(rel1)) =>
        \A i \in 1..Len(rel1) :
            Cardinality({j \in 1..Len(rel2) : Agree(i, j)}) = 1

\* Witness of C7: two children, two parents told apart by a common key, and
\* a join as long as the child relation.
C7_Witness ==
    /\ op = "join" /\ Len(rel1) = 2 /\ Len(rel2) = 2
    /\ \E k \in FirstCommon :
          /\ k \in DOMAIN rel2[2] /\ rel2[1][k] # rel2[2][k]
          /\ k \in DOMAIN rel1[2] /\ rel1[1][k] # rel1[2][k]
    /\ Len(result) = Len(rel1)
    /\ Agree(1, 1) /\ Agree(2, 2)

\* C8: every output record of join(A, B) is its rowA overlaid by its rowB:
\* its field names are the union of the two records' names, and a field
\* present in both has rowB's value.
C8_JoinRecordIsOverlay ==
    op = "join" =>
        /\ Len(origin) = Len(result)
        /\ \A n \in 1..Len(result) :
              IsOverlay(result[n], rel1[origin[n][1]], rel2[origin[n][2]])

\* Witness of C8: an output record whose two source rows both have a field,
\* with different values.
C8_Witness ==
    /\ op = "join"
    /\ \E n \in 1..Len(result) :
          \E f \in (DOMAIN rel1[origin[n][1]]) \cap (DOMAIN rel2[origin[n][2]]) :
              /\ rel1[origin[n][1]][f] # rel2[origin[n][2]][f]
              /\ result[n][f] = rel2[origin[n][2]][f]

\* C9: join(A, B) emits matches in nested-loop order: the record built from
\* (A[i], B[j]) precedes the one built from (A[i'], B[j']) exactly when
\* i < i', or i = i' and j < j'.
C9_JoinNestedLoopOrder ==
    op = "join" =>
        /\ Len(origin) = Len(result)
        /\ \A m, n \in 1..Len(result) :
              m < n <=> Before(origin[m], origin[n])

\* Witness of C9: two output records of which the earlier comes from an
\* earlier row of A and a later row of B.
C9_Witness ==
    /\ op = "join"
    /\ \E m, n \in 1..Len(result) :
          /\ m < n /\ origin[m][1] < origin[n][1] /\ origin[m][2] > origin[n][2]
          /\ FirstCommon # {}
          /\ result[m] # result[n]

\* C10: len(join(R1, R2)) <= len(R1) * len(R2) for all R1 and R2.
C10_JoinCardinalityBound ==
    op = "join" => Len(result) <= Len(rel1) * Len(rel2)

\* Witness of C10: a join that reaches the bound with two rows on each side.
C10_Witness ==
    /\ op = "join" /\ Len(rel1) = 2 /\ Len(rel2) = 2
    /\ FirstCommon # {}
    /\ Len(result) = 4

----------------------------------------------------------------------------
\* Properties of the one-relation operators, stated on the input rel1 (R),
\* the other arguments arg and the returned result.

\* The positions of R whose record satisfies the predicate.
Kept == {i \in 1..Len(rel1) : arg[rel1[i]]}

\* The n-th smallest element of a set of positions.
Nth(K, n) == CHOOSE i \in K : Cardinality({j \in K : j <= i}) = n

\* C11: restrict(R, P) is the subsequence of R, in R's order, of exactly
\* the records that satisfy P: every element of the result satisfies P and
\* no record of R satisfying P is dropped or repeated.
C11_RestrictIsStableFilter ==
    op = "restrict" =>
        /\ Len(result) = Cardinality(Kept)
        /\ \A n \in 1..Len(result) : result[n] = rel1[Nth(Kept, n)]

\* Witness of C11: of three records the middle one is dropped and the two
\* kept ones are equal.
C11_Witness ==
    /\ op = "restrict" /\ Len(rel1) = 3
    /\ Kept = {1, 3}
    /\ rel1[1] = rel1[3]
    /\ Len(result) = 2

\* C12: project(R, *F) is as long as R (equal projected records are all
\* kept), its i-th record has exactly the fields of F, and each field holds
\* R[i]'s value, or None when R[i] lacks the field; no error is raised.
C12_ProjectIsFieldMask ==
    op = "project" =>
        /\ raised = NoError
        /\ Len(result) = Len(rel1)
        /\ \A i \in 1..Len(result) :
              /\ DOMAIN result[i] = {arg[m] : m \in 1..Len(arg)}
              /\ \A f \in DOMAIN result[i] : result[i][f] = Shown(rel1[i], f)

\* Witness of C12: two different records with equal projections, and a
\* third record that lacks a requested field the others have.
C12_Witness ==
    /\ op = "project" /\ Len(rel1) = 3 /\ Len(arg) = 2
    /\ rel1[1] # rel1[2]
    /\ result[1] = result[2]
    /\ \E m \in 1..Len(arg) :
          /\ arg[m] \in (DOMAIN rel1[1]) \ (DOMAIN rel1[3])
          /\ result[3][arg[m]] = None
    /\ Len(result) = 3

\* C13: for a field name x that R[i] does not have, extend(R, x, f) is as
\* long as R and its i-th record has exactly one more field than R[i],
\* agrees with R[i] on every field of R[i], and has f(R[i]) at x.
C13_ExtendAddsOneField ==
    op = "extend" =>
        /\ Len(result) = Len(rel1)
        /\ \A i \in 1..Len(result) :
              arg.new_field \notin DOMAIN rel1[i] =>
                  /\ Cardinality(DOMAIN result[i])
                         = Cardinality(DOMAIN rel1[i]) + 1
                  /\ \A f \in DOMAIN rel1[i] : result[i][f] = rel1[i][f]
                  /\ result[i][arg.new_field] = arg.func[rel1[i]]

\* Witness of C13: records with different computed values, none of which
\* has the new field.
C13_Witness ==
    /\ op = "extend" /\ Len(rel1) = 3
    /\ \A i \in 1..3 : arg.new_field \notin DOMAIN rel1[i]
    /\ DOMAIN rel1[1] = {"k", "x"}
    /\ result[1][arg.new_field] # result[2][arg.new_field]
    /\ result[1][arg.new_field] = arg.func[rel1[1]]

\* C14: when the record already has the new field, extend overwrites it:
\* the output record has the field names of the source, the field holds
\* compute(source record), computed from the original value, and every
\* other field is unchanged.
C14_ExtendOverwrites ==
    op = "extend" =>
        \A i \in 1..Len(rel1) :
            arg.new_field \in DOMAIN rel1[i] =>
                /\ i \in DOMAIN result
                /\ DOMAIN result[i] = DOMAIN rel1[i]
                /\ result[i][arg.new_field] = arg.func[rel1[i]]
                /\ \A f \in (DOMAIN rel1[i]) \ {arg.new_field} :
                      result[i][f] = rel1[i][f]

\* Witness of C14: field k is overwritten by ten more than its old value.
C14_Witness ==
    /\ op = "extend" /\ Len(rel1) >= 1
    /\ arg.new_field = "k"
    /\ DOMAIN rel1[1] = {"k", "x"}
    /\ result[1]["k"] = rel1[1]["k"] + 10
    /\ result[1]["x"] = rel1[1]["x"]

\* The grouping key of the i-th input record and of the g-th output record,
\* read through the group fields of the call.
GroupKey(i) ==
    [m \in 1..Len(arg.group_fields) |-> Shown(rel1[i], arg.group_fields[m])]

ResultKey(g) ==
    [m \in 1..Len(arg.group_fields) |-> result[g][arg.group_fields[m]]]

Carrying(g) == {i \in 1..Len(rel1) : GroupKey(i) = ResultKey(g)}

RECURSIVE SumNumOffers(_)
SumNumOffers(n) == IF n = 0 THEN 0 ELSE SumNumOffers(n - 1) + result[n].num_offers

\* C15: summarize partitions its input: there are as many output records
\* as distinct grouping keys in the input, every input record is a member
\* of exactly one group (the one of its key), the member-list lengths the
\* reducers saw sum to the input's length, and num_offers = len(rows) is
\* the number of input records carrying the group's key.
C15_SummarizePartitions ==
    op = "summarize" =>
        /\ Len(result) = Cardinality({GroupKey(i) : i \in 1..Len(rel1)})
        /\ Len(origin) = Len(result)
        /\ \A i \in 1..Len(rel1) :
              Cardinality({gm \in (1..Len(origin)) \X (1..Len(rel1)) :
                              /\ gm[2] <= Len(origin[gm[1]])
                              /\ origin[gm[1]][gm[2]] = i}) = 1
        /\ \A g \in 1..Len(origin) : \A m \in 1..Len(origin[g]) :
              origin[g][m] \in Carrying(g)
        /\ SumNumOffers(Len(result)) = Len(rel1)
        /\ \A g \in 1..Len(result) :
              /\ result[g].num_offers = Len(origin[g])
              /\ result[g].num_offers = Cardinality(Carrying(g))

\* Two records sharing a key with a distinct one between them: two groups,
\* the shared one counting 2.
C15_Witness ==
    /\ op = "summarize"
    /\ Len(rel1) = 3
    /\ arg.group_fields = <<"k">>
    /\ "k" \in DOMAIN rel1[1] /\ "k" \in DOMAIN rel1[2]
    /\ GroupKey(1) = GroupKey(3)
    /\ GroupKey(1) # GroupKey(2)
    /\ Len(result) = 2
    /\ result[1].num_offers = 2
    /\ result[2].num_offers = 1

\* The position in the input of the first record carrying the key of the
\* g-th output group.
FirstCarrying(g) == CHOOSE i \in Carrying(g) : \A j \in Carrying(g) : i <= j

\* C16: summarize emits groups in first-seen order of the grouping key:
\* group g1 precedes group g2 in the output exactly when the first input
\* record carrying g1's key occurs before the first one carrying g2's key.
C16_SummarizeFirstSeenOrder ==
    op = "summarize" =>
        \A g1, g2 \in 1..Len(result) :
            /\ Carrying(g1) # {}
            /\ (g1 < g2) <=> (FirstCarrying(g1) < FirstCarrying(g2))

\* The larger key is seen first and comes back after the smaller one: its
\* group is emitted first.
C16_Witness ==
    /\ op = "summarize"
    /\ arg.group_fields = <<"k">>
    /\ Len(rel1) = 3
    /\ Len(result) = 2
    /\ result[1].k = 2 /\ result[2].k = 1
    /\ origin[1] = <<1, 3>> /\ origin[2] = <<2>>

\* Input records i and j are members of the same output group.
SameGroup(i, j) ==
    \E g \in 1..Len(origin) :
        /\ \E m \in 1..Len(origin[g]) : origin[g][m] = i
        /\ \E m \in 1..Len(origin[g]) : origin[g][m] = j

\* A group field of the call that record i does not have.
MissingIn(i) ==
    {m \in 1..Len(arg.group_fields) : arg.group_fields[m] \notin DOMAIN rel1[i]}

\* C17: in summarize a group field missing from a record reads as null and
\* takes part in key equality like any value: no call raises; a group shows
\* null at a field its members lack; two records missing a group field and
\* equal on the other group fields are in the same group; grouping a
\* relation that has records on fields absent from all of them gives one
\* group whose key is all null (and no group when there is no record).
C17_SummarizeMissingFieldIsNull ==
    op = "summarize" =>
        /\ raised = NoError
        /\ \A g \in 1..Len(origin) : \A n \in 1..Len(origin[g]) :
              \A m \in MissingIn(origin[g][n]) :
                  result[g][arg.group_fields[m]] = None
        /\ \A i, j \in 1..Len(rel1) :
              (/\ MissingIn(i) # {}
               /\ MissingIn(i) = MissingIn(j)
               /\ \A m \in 1..Len(arg.group_fields) :
                     m \notin MissingIn(i) =>
                         rel1[i][arg.group_fields[m]] = rel1[j][arg.group_fields[m]])
              => SameGroup(i, j)
        /\ (\A i \in 1..Len(rel1) : MissingIn(i) = 1..Len(arg.group_fields))
              => /\ Len(result) = (IF Len(rel1) = 0 THEN 0 ELSE 1)
                 /\ \A g \in 1..Len(result) : \A m \in 1..Len(arg.group_fields) :
                       result[g][arg.group_fields[m]] = None

\* Three different records grouped on two fields none of them has: one
\* group of all three with an all-null key.
C17_Witness ==
    /\ op = "summarize"
    /\ arg.group_fields = <<"z", "z">> \/ arg.group_fields = <<"z">>
    /\ Len(rel1) = 3
    /\ rel1[1] # rel1[2] /\ rel1[2] # rel1[3] /\ rel1[1] # rel1[3]
    /\ Len(result) = 1
    /\ result[1].z = None
    /\ result[1].num_offers = 3

\* Two records missing k and equal on x share a group apart from a record
\* that has k.
C17_WitnessPartial ==
    /\ op = "summarize"
    /\ arg.group_fields = <<"k", "x">>
    /\ Len(rel1) = 3
    /\ DOMAIN rel1[1] = {"x"} /\ DOMAIN rel1[2] = {"k", "x"} /\ rel1[3] = rel1[1]
    /\ rel1[2].x = rel1[1].x
    /\ Len(result) = 2
    /\ result[1].k = None /\ result[1].num_offers = 2

-----------------------------------------------------------------------------
\* Properties of ensure and of the two constraint evaluators.

\* C18: ensure(d, True) completes without raising and reports the pass;
\* ensure(d, False) raises the violation (AssertionError) whose message
\* carries d and reports no pass.  Stated of the ensure call run_constraints
\* made last: call pc - 1, reached only after pc - 2 passes.
C18_EnsurePassOrRaise ==
    (suite = "conditions" /\ pc > 1) =>
        LET d == run_constraints_descriptions[pc - 1]
        IN  IF arg[pc - 1]
            THEN /\ raised = NoError
                 /\ Len(out) = pc - 1
                 /\ out[pc - 1] = "Constraint passed: " \o d
            ELSE /\ raised = "Constraint failed: " \o d
                 /\ Len(out) = pc - 2
                 /\ \A n \in 1..Len(out) : out[n] # "Constraint passed: " \o d

\* A call with a true condition after which a call with a false one raised.
C18_Witness ==
    /\ suite = "conditions"
    /\ pc = 3
    /\ arg[1] /\ ~arg[2]
    /\ out = <<"Constraint passed: No properties with no rooms">>
    /\ raised = "Constraint failed: No bidders bidding on their own property"

\* The ensure calls of the run whose condition is false.
FalseCalls == {n \in 1..Len(run_constraints_descriptions) : ~arg[n]}

\* C19: in the fail-fast run, if call i is the first whose condition is
\* false, then once the run has reached call i it has stopped there: the
\* error carries the i-th description, the passes reported are exactly
\* those of calls 1..i-1 in order, and no later call is made or reported.
C19_FailFastStopsAtFirstFailure ==
    suite = "conditions" =>
        \A i \in FalseCalls :
            ((\A n \in FalseCalls : i <= n) /\ pc > i) =>
                /\ pc = i + 1
                /\ raised = "Constraint failed: " \o run_constraints_descriptions[i]
                /\ out = [n \in 1..(i - 1) |->
                             "Constraint passed: " \o run_constraints_descriptions[n]]

\* The third call is the first false one and the fourth is false too: two
\* passes, the third description raised, nothing of calls four and five.
C19_Witness ==
    /\ suite = "conditions"
    /\ arg[1] /\ arg[2] /\ ~arg[3] /\ ~arg[4] /\ arg[5]
    /\ pc = 4
    /\ Len(out) = 2
    /\ raised = "Constraint failed: No offers on sold properties"

\* The registered constraints whose condition returned false or raised.
Failing ==
    {n \in 1..Len(arg) :
        "raises" \in DOMAIN arg[n].condition \/ ~arg[n].condition.returns}

\* The message validate_constraints gives for failing constraint n.
Message(n) ==
    IF "raises" \in DOMAIN arg[n].condition
    THEN "Error validating constraint '" \o arg[n].description \o "': "
             \o arg[n].condition.raises
    ELSE "Constraint failed: " \o arg[n].description

\* C20: validate_constraints calls every registered condition exactly once,
\* in registration order, whatever failed before, and returns exactly one
\* message for each constraint whose condition was false or raised, in
\* that order, and none for a constraint whose condition was true.
C20_ValidateCollectsAll ==
    op = "validate_constraints" =>
        /\ origin = [n \in 1..Len(arg) |-> n]
        /\ Len(result) = Cardinality(Failing)
        /\ \A n \in 1..Len(result) : result[n] = Message(Nth(Failing, n))

\* A false condition, then a true one, then a raising one: two messages,
\* the true constraint in between giving none.
C20_Witness ==
    /\ op = "validate_constraints"
    /\ Len(arg) = 3
    /\ arg[1].condition = [returns |-> FALSE]
    /\ arg[2].condition = [returns |-> TRUE]
    /\ "raises" \in DOMAIN arg[3].condition
    /\ arg[1].description = "d1" /\ arg[3].description = "d2"
    /\ origin = <<1, 2, 3>>
    /\ result = <<"Constraint failed: d1",
                  "Error validating constraint 'd2': division by zero">>

\* The place in the returned list of the message of failing constraint n.
MessageIndex(n) == Cardinality({m \in Failing : m <= n})

\* C21: in collect-all mode an exception raised by a condition is caught
\* and becomes the message "Error validating constraint '<description>':
\* <message>", a text other than that of a false condition of the same
\* description, and the next constraint is evaluated all the same.
C21_ExceptionBecomesMessage ==
    op = "validate_constraints" =>
        \A n \in 1..Len(arg) :
            "raises" \in DOMAIN arg[n].condition =>
                /\ MessageIndex(n) <= Len(result)
                /\ result[MessageIndex(n)] =
                      "Error validating constraint '" \o arg[n].description
                          \o "': " \o arg[n].condition.raises
                /\ result[MessageIndex(n)] # "Constraint failed: " \o arg[n].description
                /\ n < Len(arg) =>
                      \E c \in 1..Len(origin) : origin[c] = n + 1

\* A raising condition first, then a false one of the same description:
\* both are called and the two messages differ.
C21_Witness ==
    /\ op = "validate_constraints"
    /\ Len(arg) = 2
    /\ "raises" \in DOMAIN arg[1].condition
    /\ arg[2] = [description |-> arg[1].description, condition |-> [returns |-> FALSE]]
    /\ origin = <<1, 2>>
    /\ Len(result) = 2
    /\ result[1] # result[2]

-----------------------------------------------------------------------------
\* Properties of the two commands.

\* The first ensure call of the run whose condition is false (0: none).
FirstFalse ==
    IF \A n \in DOMAIN arg : arg[n] THEN 0
    ELSE CHOOSE n \in DOMAIN arg : ~arg[n] /\ \A m \in 1..(n - 1) : arg[m]

\* C22: in fail-fast mode, when a rule fails the process prints the
\* failing rule's description and then ends with a non-zero status.
C22_FailFastExitsNonZero ==
    (op = "main" /\ FirstFalse # 0) =>
        /\ out[Len(out)] =
              "Constraint failed: " \o run_constraints_descriptions[FirstFalse]
        /\ status # 0

\* What main does do when a rule fails: the failing rule's message is the
\* last line printed, and the process ends with status 0.
C22_FailurePrintedStatusZero ==
    (op = "main" /\ FirstFalse # 0) =>
        /\ out[Len(out)] =
              "Constraint failed: " \o run_constraints_descriptions[FirstFalse]
        /\ Len(out) = FirstFalse
        /\ raised = NoError
        /\ status = 0

\* C23: the validate command prints every collected message and exits
\* non-zero only if the list of messages is non-empty; with an empty list it
\* reports success and exits zero.
C23_ValidateCommandStatus ==
    op = "cli_validate" =>
        /\ (status # 0) <=> (Failing # {})
        /\ Failing # {} =>
              /\ Len(out) = 2 + Cardinality(Failing)
              /\ \A n \in 1..Cardinality(Failing) :
                    out[2 + n] = "  - " \o Message(Nth(Failing, n))
        /\ Failing = {} =>
              /\ out[Len(out)] = "All constraints validated successfully!"
              /\ status = 0

\* Two failures around a passing constraint: both printed, status 1.
C23_Witness ==
    /\ op = "cli_validate"
    /\ Len(arg) = 3
    /\ Failing = {1, 3}
    /\ status = 1
    /\ Len(out) = 4
    /\ out[3] = "  - Constraint failed: d1"

\* No failure among two constraints: success reported, status 0.
C23_WitnessSuccess ==
    /\ op = "cli_validate"
    /\ Len(arg) = 2
    /\ Failing = {}
    /\ status = 0
    /\ Len(out) = 2

-----------------------------------------------------------------------------
\* Properties of the sample evaluators.

\* C26: run_constraints of the test, on its sample relations, reports all
\* five rules as passed, in order, and raises no error: after each call
\* the lines printed are the pass lines of the rules called so far.
C26_TestRulesAllPass ==
    suite = "test_conditions" =>
        /\ raised = NoError
        /\ out = [n \in 1..(pc - 1) |->
                     "Constraint passed: "
                         \o test_run_constraints_ensures[n].description]

\* The run has ended with its five pass lines.
C26_Witness ==
    /\ suite = "test_conditions"
    /\ pc = 6
    /\ raised = NoError
    /\ Len(out) = 5
    /\ out[1] = "Constraint passed: No properties with no rooms"
    /\ out[5] = "Constraint passed: No more than 10 offers by a single bidder on a single property"

\* Some offer's property_id is the id of a property whose status is sold.
OfferOnSoldProperty ==
    \E o \in 1..Len(RealEstateOffer) : \E p \in 1..Len(RealEstatePropertyInfo) :
        /\ RealEstateOffer[o].property_id = RealEstatePropertyInfo[p].id
        /\ RealEstatePropertyInfo[p].status = "sold"

\* C27: in the real-estate evaluator the rule "No offers on already sold
\* properties" fails whenever some offer's property_id is the id of a sold
\* property: once the run has made the rule's ensure call, that call has
\* raised (seen on the module's data, where offer 104 is on sold property 5).
C27_OfferOnSoldFailsRule ==
    (suite = "real_estate" /\ pc > 3 /\ OfferOnSoldProperty) =>
        raised = "Constraint failed: No offers on already sold properties"

\* What the run does do on the module's data: all six rules pass, the
\* third included.
C27_RealEstateRulesAllPass ==
    suite = "real_estate" =>
        /\ raised = NoError
        /\ out = [n \in 1..(pc - 1) |->
                     "Constraint passed: " \o real_estate_ensures[n].description]

-----------------------------------------------------------------------------
\* Properties of the operators on their inputs.

Operators == {"restrict", "join", "project", "extend", "summarize"}

\* C24: no operator mutates an input relation: over any call of restrict,
\* join, project, extend or summarize (callbacks being pure), every input
\* relation keeps its records, their order, and each record's fields and
\* values.
C24_OperatorsKeepInputs ==
    [][(op = "none" /\ op' \in Operators) => (rel1' = rel1 /\ rel2' = rel2)]_vars

\* extend returned two records with a field their input rows do not have.
C24_Witness ==
    /\ op = "extend"
    /\ Len(rel1) = 2
    /\ Len(result) = 2
    /\ arg.new_field = "y"
    /\ \A n \in 1..2 : "y" \in DOMAIN result[n] /\ "y" \notin DOMAIN rel1[n]

\* C25: a relation an operator returns shares no record with its input: no
\* record of the result of restrict, join, project, extend or summarize is
\* the same dict as a record of an input relation (seen on inputs whose
\* records have every field).
C25_ResultNeverAliasesInput ==
    (op \in Operators /\ \A i \in 1..Len(rel1) : DOMAIN rel1[i] = Fields) =>
        \A n \in 1..Len(alias) : alias[n] = 0

\* The caller's assignment to a record restrict returned has changed the
\* input relation.
C25_AssignmentReachesInput ==
    /\ op = "assign"
    /\ Len(rel1) = 1
    /\ alias = <<1>>
    /\ rel1 = result
    /\ rel1[1] = [k |-> 2]

-----------------------------------------------------------------------------
\* Further properties of join.

\* C28: for non-empty A and B whose first records share no field name,
\* join(A, B) is the full Cartesian product: len(A) * len(B) records, one
\* for each pair of rows, whatever fields the later records have.
C28_FirstRecordsDisjointGivesProduct ==
    (op = "join" /\ Len(rel1) > 0 /\ Len(rel2) > 0 /\ FirstCommon = {}) =>
        /\ Len(result) = Len(rel1) * Len(rel2)
        /\ \A i \in 1..Len(rel1) : \A j \in 1..Len(rel2) :
              Cardinality({n \in 1..Len(origin) : origin[n] = <<i, j>>}) = 1

\* The first records share no field while the second records of both
\* relations have a field, k, on which they differ: still four records.
C28_Witness ==
    /\ op = "join"
    /\ Len(rel1) = 2 /\ Len(rel2) = 2
    /\ DOMAIN rel1[1] = {"k"} /\ DOMAIN rel2[1] = {"x"}
    /\ "k" \in DOMAIN rel1[2] /\ "k" \in DOMAIN rel2[2]
    /\ rel1[2].k # rel2[2].k
    /\ Len(result) = 4

\* C29: join is commutative in cardinality: for all relations A and B,
\* heterogeneous ones included, len(join(A, B)) = len(join(B, A)).
C29_JoinCardinalityCommutes ==
    op = "join" => Len(result) = Len(join(rel2, rel1))

\* Heterogeneous relations of different lengths whose two joins have the
\* same number of records, at least two, and are not the same relation.
C29_Witness ==
    /\ op = "join"
    /\ Len(rel1) = 1 /\ Len(rel2) = 3
    /\ DOMAIN rel2[1] # DOMAIN rel2[2]
    /\ FirstCommon # {}
    /\ Len(result) = 2
    /\ Len(join(rel2, rel1)) = 2
    /\ result # join(rel2, rel1)

-----------------------------------------------------------------------------
\* The two evaluators compared.

\* The rules of the fail-fast run registered with the framework: the same
\* descriptions, each condition returning the value the run was given.
RegisteredRules ==
    [n \in 1..Len(run_constraints_descriptions) |->
        [description |-> run_constraints_descriptions[n],
         condition |-> [returns |-> arg[n]]]]

\* The fail-fast run is over: it raised, or made its last ensure call.
RunOver == raised # NoError \/ pc > Len(run_constraints_descriptions)

\* C30: on constraints whose conditions evaluate without raising, the two
\* modes agree: the fail-fast run raises if and only if validate_constraints
\* returns a non-empty list, and the text of the fail-fast error is the
\* first message of that list.
C30_FailFastAgreesWithCollectAll ==
    (suite = "conditions" /\ RunOver) =>
        LET errors == validate_constraints(RegisteredRules)
        IN  /\ (raised # NoError) <=> (Len(errors) > 0)
            /\ raised # NoError => raised = errors[1]

\* Rules two and four are false: the run raised at rule two, whose text is
\* the first of the two messages collected.
C30_Witness ==
    /\ suite = "conditions"
    /\ arg = <<TRUE, FALSE, TRUE, FALSE, TRUE>>
    /\ pc = 3
    /\ raised = "Constraint failed: No bidders bidding on their own property"
    /\ validate_constraints(RegisteredRules) =
          <<"Constraint failed: No bidders bidding on their own property",
            "Constraint failed: No more than 50 premium price band properties on website">>

====
